---------------------------- MODULE Spec2Model ----------------------------
(***************************************************************************)
(* needle: an audiobook-style reader.                                      *)
(*                                                                         *)
(* SpecSeg   the text segmenter of OpenAISynthTranscriber                  *)
(*           (src/app/core/reader.py:110-195), one step per iteration of   *)
(*           the outer while loop.                                         *)
(* SpecBook  audio_entire_book (src/app/core/upload_processing.py:75-120)  *)
(*           over the pages of one book, one step per synthesized buffer   *)
(*           and per saved or failed page.                                 *)
(* SpecCache ConcreteNarrator (src/app/core/reader.py:33-100) over a book  *)
(*           with stored audio, one step per load or scrub call.           *)
(* SpecServe the narration endpoints of src/app/main.py:275-323 with the   *)
(*           process-wide narrator of reader.py:213-226, one step per      *)
(*           stretch of a request handler between two awaits.              *)
(* SpecFetch audio_entire_book by page counts, for books around the        *)
(*           999999 pages of upload_processing.py:87.                      *)
(*                                                                         *)
(* The five share the variables; each starts with the other four idle.     *)
(*                                                                         *)
(* Text is a sequence of one-character strings.  The separators the code   *)
(* appends ("\n" after a paragraph or sentence, " " after a word) are the  *)
(* same characters as in the source.                                       *)
(***************************************************************************)
EXTENDS Integers, Sequences, FiniteSets, TLC

\* ------------------------------------------------------------------ bounds

\* self.MAX_CHARS (reader.py:108, 4096 in the source), scaled down so that the
\* paragraph, sentence and word paths all happen on short texts.
MAX_CHARS == 4

\* Size of a page's paragraph list: the sum over its paragraphs of (length + 1).
MaxPageChars == 6

\* Characters of the input texts: two letters, a sentence delimiter, a space.
Alphabet == {"a", "b", ".", " "}

\* str.strip() and the regular expression's \s
Whitespace == {" ", "\n"}

\* the character class [.!?] of reader.py:113 and the test of reader.py:117
Delims == {".", "!", "?"}

\* the placeholder of reader.py:111, one element that is neither a delimiter
\* nor whitespace
ELLIPSIS == "###ELLIPSIS###"

\* ---------------------------------------------------------- string helpers

Max(a, b) == IF a >= b THEN a ELSE b

Last(s) == s[Len(s)]

Reverse(s) == [i \in 1..Len(s) |-> s[Len(s) + 1 - i]]

RECURSIVE Flatten(_)
\* "".join(list)
Flatten(list) ==
    IF list = <<>> THEN <<>> ELSE Head(list) \o Flatten(Tail(list))

RECURSIVE LStrip(_)
LStrip(s) ==
    IF s # <<>> /\ Head(s) \in Whitespace THEN LStrip(Tail(s)) ELSE s

RECURSIVE RStrip(_)
RStrip(s) ==
    IF s # <<>> /\ Last(s) \in Whitespace
    THEN RStrip(SubSeq(s, 1, Len(s) - 1))
    ELSE s

\* str.strip()
Strip(s) == RStrip(LStrip(s))

RECURSIVE JoinWith(_, _)
\* sep.join(list)
JoinWith(sep, list) ==
    IF list = <<>> THEN <<>>
    ELSE IF Len(list) = 1 THEN Head(list)
    ELSE Head(list) \o sep \o JoinWith(sep, Tail(list))

RECURSIVE SplitOn(_, _, _)
\* str.split(' '): every single space separates, so consecutive spaces give
\* empty words.  acc is the word being read.
SplitOn(s, sepchar, acc) ==
    IF s = <<>> THEN <<acc>>
    ELSE IF Head(s) = sepchar
         THEN <<acc>> \o SplitOn(Tail(s), sepchar, <<>>)
         ELSE SplitOn(Tail(s), sepchar, Append(acc, Head(s)))

RECURSIVE ReplaceEllipsis(_)
\* text.replace('...', '###ELLIPSIS###'): leftmost, non-overlapping
ReplaceEllipsis(s) ==
    IF Len(s) >= 3 /\ s[1] = "." /\ s[2] = "." /\ s[3] = "."
    THEN <<ELLIPSIS>> \o ReplaceEllipsis(SubSeq(s, 4, Len(s)))
    ELSE IF s = <<>> THEN <<>>
    ELSE <<Head(s)>> \o ReplaceEllipsis(Tail(s))

RECURSIVE RestoreEllipsis(_)
\* s.replace('###ELLIPSIS###', '...')
RestoreEllipsis(s) ==
    IF s = <<>> THEN <<>>
    ELSE IF Head(s) = ELLIPSIS
         THEN <<".", ".", ".">> \o RestoreEllipsis(Tail(s))
         ELSE <<Head(s)>> \o RestoreEllipsis(Tail(s))

RECURSIVE RunEnd(_, _, _)
\* first index >= i of s whose character is not in class (Len(s)+1 if none)
RunEnd(s, i, class) ==
    IF i <= Len(s) /\ s[i] \in class THEN RunEnd(s, i + 1, class) ELSE i

RECURSIVE ReSplit(_, _, _)
\* re.split(r'([.!?]+)\s+', s): the texts between the matches, with each
\* match's delimiter run (the capture group) between them; the whitespace is
\* consumed.  from is the start of the current text, i the scan position.
ReSplit(s, from, i) ==
    IF i > Len(s) THEN <<SubSeq(s, from, Len(s))>>
    ELSE IF s[i] \in Delims
         THEN LET j == RunEnd(s, i, Delims)
                  k == RunEnd(s, j, Whitespace)
              IN  IF k > j
                  THEN <<SubSeq(s, from, i - 1), SubSeq(s, i, j - 1)>>
                       \o ReSplit(s, k, k)
                  ELSE ReSplit(s, from, j)
         ELSE ReSplit(s, from, i + 1)


\* ------------------------------------------------------------ the segmenter

\* The list comprehension of reader.py:115: parts[i] + parts[i+1] for
\* i in range(0, len(parts) - 1, 2), here with indices from 1.
RecombineDelimiters(parts) ==
    [n \in 1..((Len(parts) - 1) \div 2) |-> parts[2 * n - 1] \o parts[2 * n]]

\* reader.py:116-118
AddFinalPeriod(sentences) ==
    IF sentences # <<>> /\ Last(Last(sentences)) \notin Delims
    THEN [sentences EXCEPT ![Len(sentences)] = @ \o <<".">>]
    ELSE sentences

\* break_into_sentences that also keeps the text after the last delimiter
break_into_sentences_keeps_tail(text) ==
    LET replaced == ReplaceEllipsis(text)
        parts    == ReSplit(replaced, 1, 1)
        paired   == RecombineDelimiters(parts)
        joined   == AddFinalPeriod(IF Last(parts) # <<>>
                                   THEN Append(paired, Last(parts))
                                   ELSE paired)
    IN  [n \in 1..Len(joined) |-> RestoreEllipsis(joined[n])]

break_into_sentences(text) ==
    LET replaced == ReplaceEllipsis(text)
        parts    == ReSplit(replaced, 1, 1)
        joined   == AddFinalPeriod(RecombineDelimiters(parts))
    IN  [n \in 1..Len(joined) |-> RestoreEllipsis(joined[n])]

\* reader.py:130-134: a buffer holding only whitespace is neither emitted nor
\* cleared.
flush_buffer(buffer, buffers) ==
    IF Strip(buffer) # <<>>
    THEN [current_buffer |-> <<>>, sized_buffers |-> Append(buffers, Strip(buffer))]
    ELSE [current_buffer |-> buffer, sized_buffers |-> buffers]

RECURSIVE FitSentences(_, _, _)
\* the while loop of reader.py:139-146
FitSentences(buffer, sentences, did_any_fit) ==
    IF sentences = <<>>
    THEN [did_any_fit |-> did_any_fit, current_buffer |-> buffer, sentences |-> sentences]
    ELSE IF Len(buffer \o Head(sentences) \o <<"\n">>) <= MAX_CHARS
         THEN FitSentences(buffer \o Head(sentences) \o <<"\n">>, Tail(sentences), TRUE)
         ELSE [did_any_fit |-> did_any_fit, current_buffer |-> buffer, sentences |-> sentences]

process_sentences(buffer, paragraph_chunk) ==
    FitSentences(buffer, break_into_sentences(paragraph_chunk), FALSE)

RECURSIVE FitWords(_, _)
\* the while loop of reader.py:152-158
FitWords(buffer, words) ==
    IF words = <<>>
    THEN [current_buffer |-> buffer, words |-> words]
    ELSE IF Len(buffer \o Head(words) \o <<" ">>) <= MAX_CHARS
         THEN FitWords(buffer \o Head(words) \o <<" ">>, Tail(words))
         ELSE [current_buffer |-> buffer, words |-> words]

\* process_words that takes the first word whether or not it fits
process_words_first_forced(buffer, sentences) ==
    LET words == SplitOn(Head(sentences), " ", <<>>)
        fw    == FitWords(buffer \o Head(words) \o <<" ">>, Tail(words))
    IN  [current_buffer |-> fw.current_buffer,
         sentences |-> <<JoinWith(<<" ">>, fw.words)>> \o Tail(sentences)]

process_words(buffer, sentences) ==
    LET fw == FitWords(buffer, SplitOn(Head(sentences), " ", <<>>))
    IN  [current_buffer |-> fw.current_buffer,
         sentences |-> <<JoinWith(<<" ">>, fw.words)>> \o Tail(sentences)]

RECURSIVE FitParagraphs(_, _, _, _)
\* The inner while of reader.py:174-176.  Its condition pops the next chunk
\* before testing its length, so the chunk that ends the loop has left the
\* work-list.
FitParagraphs(chunks, buffer, paragraph_processed, chunk) ==
    IF chunks = <<>>
    THEN [unprocessed_chunks |-> chunks, current_buffer |-> buffer,
          paragraph_processed |-> paragraph_processed, chunk |-> chunk]
    ELSE IF Len(buffer \o Head(chunks) \o <<"\n">>) <= MAX_CHARS
         THEN FitParagraphs(Tail(chunks), buffer \o Head(chunks) \o <<"\n">>,
                            TRUE, Head(chunks))
         ELSE [unprocessed_chunks |-> Tail(chunks), current_buffer |-> buffer,
               paragraph_processed |-> paragraph_processed, chunk |-> Head(chunks)]

\* reader.py:178-186, entered when no paragraph fitted in this pass
SentencesThenWords(chunks, buffer, chunk) ==
    LET ps == process_sentences(buffer, chunk)
    IN  IF ps.sentences # <<>> /\ ~ps.did_any_fit
        THEN LET pw == process_words(ps.current_buffer, ps.sentences)
                 remainder == JoinWith(<<" ">>, pw.sentences)
             IN  [unprocessed_chunks |-> <<remainder>> \o chunks,
                  current_buffer |-> pw.current_buffer]
        ELSE [unprocessed_chunks |-> chunks, current_buffer |-> ps.current_buffer]

\* One iteration of the outer while of reader.py:171-188, from the work-list,
\* the buffer and the output so far.
LoopBody(chunks, buffer, buffers) ==
    LET fp == FitParagraphs(chunks, buffer, FALSE, <<>>)
        sw == IF fp.paragraph_processed
              THEN [unprocessed_chunks |-> fp.unprocessed_chunks,
                    current_buffer |-> fp.current_buffer]
              ELSE SentencesThenWords(fp.unprocessed_chunks, fp.current_buffer, fp.chunk)
        fl == flush_buffer(sw.current_buffer, buffers)
    IN  [unprocessed_chunks |-> sw.unprocessed_chunks,
         before_flush |-> sw.current_buffer,
         current_buffer |-> fl.current_buffer,
         sized_buffers |-> fl.sized_buffers]

\* reader.py:190-191
FinalBuffers(buffer, buffers) ==
    LET fl == flush_buffer(buffer, buffers)
    IN  IF fl.sized_buffers # <<>> THEN fl.sized_buffers ELSE << <<>> >>

RECURSIVE RunLoop(_, _, _)
RunLoop(chunks, buffer, buffers) ==
    IF chunks = <<>> THEN FinalBuffers(buffer, buffers)
    ELSE LET lb == LoopBody(chunks, buffer, buffers)
         IN  RunLoop(lb.unprocessed_chunks, lb.current_buffer, lb.sized_buffers)

\* the whole of reader.py:123-191 as a function of its argument
convert_paragraph_text_to_buffers(paragraphed) == RunLoop(paragraphed, <<>>, <<>>)

\* reader.py:193-195: the page's list is copied in reverse
convert_page_to_buffered_text(paragraphs) ==
    convert_paragraph_text_to_buffers(Reverse(paragraphs))

\* ------------------------------------------------------ inputs of the model

Strings(n) == UNION {[1..k -> Alphabet] : k \in 0..n}

RECURSIVE ParagraphLists(_)
\* every paragraph list whose paragraphs, counting one separator each, take
\* at most budget characters
ParagraphLists(budget) ==
    {<<>>} \cup
    UNION {{<<p>> \o rest : rest \in ParagraphLists(budget - Len(p) - 1)}
           : p \in Strings(budget - 1)}

\* ---------------------------------------------------------------- SpecSeg

VARIABLES
    page_text,           \* the caller's list: page.paragraphed_text, or the list passed itself
    entry,               \* "none" | "page" | "direct": how the segmenter was called
    paragraphed_text,    \* the argument of _convert_paragraph_text_to_buffers at the call
    unprocessed_chunks,  \* reader.py:165, the work-list
    current_buffer,      \* reader.py:164
    sized_buffers,       \* reader.py:163; the returned list once seg_pc = "done"
    before_flush,        \* current_buffer as the last flush_buffer() call found it
    seg_pc,              \* "call" | "loop" | "done"
    iterations           \* iterations of the outer while so far

segVars == <<page_text, entry, paragraphed_text, unprocessed_chunks, current_buffer,
             sized_buffers, before_flush, seg_pc, iterations>>

\* audio_entire_book (upload_processing.py:75-120) and the tables it uses
VARIABLES
    book_pages,       \* the book's Page rows by page_number + 1: [chapter, paragraphed_text]
    page_audio,       \* per page: NoAudio, or [audio_blob, audio_duration, audio_start_offset]
    pages,            \* upload_processing.py:87, the page numbers fetched
    page_index,       \* position of the for loop in pages
    current_chapter,  \* upload_processing.py:81
    chapter_offset,   \* upload_processing.py:82
    buffers,          \* reader.py:206, the buffers not yet synthesized
    audio_bytes,      \* reader.py:207
    failures,         \* pages whose synthesis raised, with the bytes synthesized before
    book_pc           \* "idle" | "start" | "page" | "synth" | "done" | "raised"

bookVars == <<book_pages, page_audio, pages, page_index, current_chapter,
              chapter_offset, buffers, audio_bytes, failures, book_pc>>

\* ConcreteNarrator (reader.py:33-100) and the AudioChunk table it reads
VARIABLES
    audio_chunks,       \* the AudioChunk rows of the book (models.py:122-134)
    audio_buffer,       \* reader.py:36, a dict: its items [ts, audio] in insertion order
    current_timestamp,  \* reader.py:37
    last_call,          \* the last narrator call: what it found and what it did
    recent,             \* the pages whose audio the calls asked for, by recency
    calls,              \* the number of narrator calls made
    before_call         \* the narrator's fields as the last call found them

cacheVars == <<audio_chunks, audio_buffer, current_timestamp, last_call, recent,
               calls, before_call>>

\* the narration endpoints (main.py:275-323) and what they work on
VARIABLES
    library,            \* per book: its Page rows and AudioChunk rows
    narrators,          \* the ConcreteNarrator objects constructed so far
    narrator_ref,       \* _narrator (reader.py:214): 0 is None, else the object
    requests,           \* the requests received, each with its position in its handler
    user_book_states    \* cursor_position of the UserBookState rows

serveVars == <<library, narrators, narrator_ref, requests, user_book_states>>

\* audio_entire_book over a book of any size: the pages by their count
VARIABLES
    total_pages,        \* Book.total_pages, the number of Page rows 0..(n - 1)
    fetched,            \* the rows get_pages_from_book returned: first, count
    attempted,          \* pages of the list the loop has been over
    fetch_pc

fetchVars == <<total_pages, fetched, attempted, fetch_pc>>

vars == <<segVars, bookVars, cacheVars, serveVars, fetchVars>>

\* more iterations than the outer loop can need; the guard of LoopIteration
IterationCap == 2 * MaxPageChars + 2

\* no run of the pipeline
BookIdle ==
    /\ book_pages = <<>>
    /\ page_audio = <<>>
    /\ pages = <<>>
    /\ page_index = 0
    /\ current_chapter = "None"
    /\ chapter_offset = 0
    /\ buffers = <<>>
    /\ audio_bytes = <<>>
    /\ failures = {}
    /\ book_pc = "idle"

\* no run over a book by its page count
FetchIdle ==
    /\ total_pages = 0
    /\ fetched = [first |-> 0, count |-> 0]
    /\ attempted = 0
    /\ fetch_pc = "idle"

\* no book, no narrator object, no request
ServeIdle ==
    /\ library = <<>>
    /\ narrators = <<>>
    /\ narrator_ref = 0
    /\ requests = <<>>
    /\ user_book_states = <<>>

\* no call of the narrator yet
NoCall == [op |-> "none", timestamp |-> 0, cached |-> FALSE, queries |-> 0,
           outcome |-> "none", returned |-> <<>>]

\* a narrator as reader.py:34-37 constructs it, over an empty chunk table
CacheIdle ==
    /\ audio_chunks = {}
    /\ audio_buffer = <<>>
    /\ current_timestamp = 0
    /\ last_call = NoCall
    /\ recent = <<>>
    /\ calls = 0
    /\ before_call = [audio_buffer |-> <<>>, current_timestamp |-> 0]

InitSeg ==
    /\ FetchIdle
    /\ BookIdle
    /\ CacheIdle
    /\ ServeIdle
    /\ page_text \in ParagraphLists(MaxPageChars)
    /\ entry = "none"
    /\ paragraphed_text = <<>>
    /\ unprocessed_chunks = <<>>
    /\ current_buffer = <<>>
    /\ sized_buffers = <<>>
    /\ before_flush = <<>>
    /\ seg_pc = "call"
    /\ iterations = 0

\* _convert_page_to_buffered_text(page) up to the loop (reader.py:193-195, 163-165)
CallForPage ==
    /\ seg_pc = "call"
    /\ entry' = "page"
    /\ paragraphed_text' = Reverse(page_text)
    /\ unprocessed_chunks' = Reverse(page_text)
    /\ current_buffer' = <<>>
    /\ sized_buffers' = <<>>
    /\ seg_pc' = "loop"
    /\ UNCHANGED <<page_text, before_flush, iterations, bookVars, cacheVars, serveVars, fetchVars>>

\* _convert_paragraph_text_to_buffers(list) called with the list itself, as
\* main.py:260 does
CallDirect ==
    /\ seg_pc = "call"
    /\ entry' = "direct"
    /\ paragraphed_text' = page_text
    /\ unprocessed_chunks' = page_text
    /\ current_buffer' = <<>>
    /\ sized_buffers' = <<>>
    /\ seg_pc' = "loop"
    /\ UNCHANGED <<page_text, before_flush, iterations, bookVars, cacheVars, serveVars, fetchVars>>

\* reader.py:165 binds unprocessed_chunks to the list object it was passed, so
\* the pops and inserts of the loop are made on the caller's list; the
\* reversed list of reader.py:194 is a new object
CallerList(how, list, chunks) == IF how = "direct" THEN chunks ELSE list

\* one iteration of the outer while (reader.py:171-188)
LoopIteration ==
    /\ seg_pc = "loop"
    /\ unprocessed_chunks # <<>>
    /\ iterations < IterationCap
    /\ LET lb == LoopBody(unprocessed_chunks, current_buffer, sized_buffers)
       IN  /\ unprocessed_chunks' = lb.unprocessed_chunks
           /\ page_text' = CallerList(entry, page_text, lb.unprocessed_chunks)
           /\ current_buffer' = lb.current_buffer
           /\ sized_buffers' = lb.sized_buffers
           /\ before_flush' = lb.before_flush
    /\ iterations' = iterations + 1
    /\ UNCHANGED <<entry, paragraphed_text, seg_pc, bookVars, cacheVars, serveVars, fetchVars>>

\* the loop ends: the last flush and the return (reader.py:190-191)
Return ==
    /\ seg_pc = "loop"
    /\ unprocessed_chunks = <<>>
    /\ sized_buffers' = FinalBuffers(current_buffer, sized_buffers)
    /\ current_buffer' = flush_buffer(current_buffer, sized_buffers).current_buffer
    /\ before_flush' = current_buffer
    /\ seg_pc' = "done"
    /\ UNCHANGED <<page_text, entry, paragraphed_text, unprocessed_chunks, iterations, bookVars, cacheVars, serveVars, fetchVars>>

NextSeg == CallForPage \/ CallDirect \/ LoopIteration \/ Return

SpecSeg == InitSeg /\ [][NextSeg]_vars

\* ------------------------------------------------- claims on the segmenter

RECURSIVE TokensOf(_, _)
\* str.split(): the maximal runs of non-whitespace characters, in order
TokensOf(s, acc) ==
    IF s = <<>> THEN (IF acc = <<>> THEN <<>> ELSE <<acc>>)
    ELSE IF Head(s) \in Whitespace
         THEN (IF acc = <<>> THEN <<>> ELSE <<acc>>) \o TokensOf(Tail(s), <<>>)
         ELSE TokensOf(Tail(s), Append(acc, Head(s)))

\* a text list up to whitespace normalisation
Normalised(list) == TokensOf(JoinWith(<<"\n">>, list), <<>>)

\* paragraphs as _chunk_by_paragraph stores them: stripped and not empty
WellFormed(list) ==
    \A n \in 1..Len(list) : list[n] # <<>> /\ Strip(list[n]) = list[n]

IsWord(s) == s # <<>> /\ \A n \in 1..Len(s) : s[n] \notin Whitespace

\* s occurs in t as a contiguous run
Occurs(s, t) ==
    \E n \in 0..(Len(t) - Len(s)) : SubSeq(t, n + 1, n + Len(s)) = s

RECURSIVE IsSubsequence(_, _)
\* s can be obtained from t by deleting elements
IsSubsequence(s, t) ==
    IF s = <<>> THEN TRUE
    ELSE IF t = <<>> THEN FALSE
    ELSE IF Head(s) = Head(t) THEN IsSubsequence(Tail(s), Tail(t))
    ELSE IsSubsequence(s, Tail(t))

Letters(s) == SelectSeq(s, LAMBDA c : c \notin Whitespace \cup Delims)

\* C1: segmentation round trip.  When _convert_paragraph_text_to_buffers has
\* returned, the output buffers joined in order are the input paragraphs
\* joined in order, up to whitespace: nothing lost, nothing twice.
C1_RoundTrip ==
    (seg_pc = "done" /\ WellFormed(paragraphed_text))
        => Normalised(sized_buffers) = Normalised(paragraphed_text)

\* C2: bound invariant.  The working buffer, after every iteration and as
\* every flush finds it, and every buffer emitted or returned, has at most
\* MAX_CHARS characters.
C2_BoundInvariant ==
    /\ Len(current_buffer) <= MAX_CHARS
    /\ Len(before_flush) <= MAX_CHARS
    /\ \A n \in 1..Len(sized_buffers) : Len(sized_buffers[n]) <= MAX_CHARS

\* C2 witness: the call has returned for an input with a paragraph longer than
\* MAX_CHARS, which went through word splitting into more than one buffer.
C2_Witness ==
    /\ seg_pc = "done"
    /\ \E n \in 1..Len(paragraphed_text) : Len(paragraphed_text[n]) > MAX_CHARS
    /\ Len(sized_buffers) >= 2
    /\ \A n \in 1..Len(sized_buffers) : sized_buffers[n] # <<>>

\* C3: progress.  The outer loop runs at most once per character and
\* paragraph of its input (so it is never cut short by IterationCap: while the
\* work-list is not empty another iteration can run), and the call returns
\* with the work-list empty.
C3_Progress ==
    /\ iterations <= Len(Flatten(paragraphed_text)) + Len(paragraphed_text)
    /\ (seg_pc = "loop" /\ unprocessed_chunks # <<>>) => iterations < IterationCap
    /\ seg_pc = "done" => unprocessed_chunks = <<>>

\* C3 witness: a call has returned after a remainder was put back on the
\* work-list (more iterations than paragraphs) for an input with a word that
\* does not fit an empty buffer with its separator.
C3_Witness ==
    /\ seg_pc = "done"
    /\ iterations > Len(paragraphed_text)
    /\ \E n \in 1..Len(paragraphed_text) :
         LET words == TokensOf(paragraphed_text[n], <<>>)
         IN  \E k \in 1..Len(words) : Len(words[k]) + 1 > MAX_CHARS

\* C4: a single space-free word longer than MAX_CHARS is force-emitted: when
\* the call has returned, every such paragraph of the input occurs in the
\* concatenated output.
C4_LongWordEmitted ==
    seg_pc = "done" =>
        \A n \in 1..Len(paragraphed_text) :
            (IsWord(paragraphed_text[n]) /\ Len(paragraphed_text[n]) > MAX_CHARS)
                => Occurs(paragraphed_text[n], Flatten(sized_buffers))

\* C5: reading order.  The buffers produced for a page by
\* _convert_page_to_buffered_text follow the order of page.paragraphed_text:
\* the letters of the output, in order, are letters of the page in page order.
C5_ReadingOrder ==
    (seg_pc = "done" /\ entry = "page" /\ WellFormed(page_text))
        => IsSubsequence(Letters(Flatten(sized_buffers)), Letters(Flatten(page_text)))

\* C24: the segmenter is a pure function.  During and after a call of
\* _convert_paragraph_text_to_buffers the list the caller passed is as it was
\* at the call, and during and after _convert_page_to_buffered_text
\* page.paragraphed_text is as it was.
C24_ArgumentUnchanged ==
    /\ entry = "direct" => page_text = paragraphed_text
    /\ entry = "page" => Reverse(page_text) = paragraphed_text

\* C22: empty-buffer rule.  The call returns the one-element list [""] for
\* the empty paragraph list, and for every other list of stripped,
\* non-empty paragraphs no returned buffer is empty or whitespace only.
C22_EmptyBufferRule ==
    (seg_pc = "done" /\ WellFormed(paragraphed_text))
        => IF paragraphed_text = <<>>
           THEN sized_buffers = << <<>> >>
           ELSE \A n \in 1..Len(sized_buffers) : Strip(sized_buffers[n]) # <<>>

\* the text the next iteration of the loop passes to _break_into_sentences
\* (reader.py:180, 136): the chunk popped when no paragraph fitted
TextToSplit ==
    LET fp == FitParagraphs(unprocessed_chunks, current_buffer, FALSE, <<>>)
    IN  IF seg_pc = "loop" /\ unprocessed_chunks # <<>> /\ ~fp.paragraph_processed
        THEN {fp.chunk} ELSE {}

NonSpace(s) == SelectSeq(s, LAMBDA c : c \notin Whitespace)

\* C25: _break_into_sentences returns every sentence of the text it is
\* given, the last one and text without a delimiter included: the sentences
\* joined are the text without its whitespace, with at most the period
\* added to a last sentence that has none.
C25_EverySentence ==
    \A text \in TextToSplit :
        LET joined == NonSpace(Flatten(break_into_sentences(text)))
        IN  joined = NonSpace(text) \/ joined = NonSpace(text) \o <<".">>

RECURSIVE PoppedNotAppended(_, _)
\* the chunk the paragraph loop of reader.py:174-176 pops and does not
\* append, if there is one
PoppedNotAppended(chunks, buffer) ==
    IF chunks = <<>> THEN {}
    ELSE IF Len(buffer \o Head(chunks) \o <<"\n">>) <= MAX_CHARS
         THEN PoppedNotAppended(Tail(chunks), buffer \o Head(chunks) \o <<"\n">>)
         ELSE {Head(chunks)}

\* the text an iteration of the outer loop takes off the work-list and does
\* not append to the buffer: the paragraph that ended the paragraph loop
\* after others fitted, or the sentences of process_sentences that did not
\* fit, or the sentences left by process_words, joined as reader.py:185 does
LeftOver(chunks, buffer) ==
    LET fp == FitParagraphs(chunks, buffer, FALSE, <<>>)
        ps == process_sentences(fp.current_buffer, fp.chunk)
        pw == process_words(ps.current_buffer, ps.sentences)
    IN  IF fp.paragraph_processed THEN PoppedNotAppended(chunks, buffer)
        ELSE IF ps.sentences = <<>> THEN {}
        ELSE IF ps.did_any_fit THEN {JoinWith(<<" ">>, ps.sentences)}
        ELSE {JoinWith(<<" ">>, pw.sentences)}

\* C26: nothing taken off the work-list is discarded.  In every iteration
\* of the outer loop, text that was popped and not appended to the buffer is
\* at the front of the work-list when the iteration ends.
C26_LeftOverReinserted ==
    [][(seg_pc = "loop" /\ iterations' = iterations + 1)
          => \A text \in LeftOver(unprocessed_chunks, current_buffer) :
                Strip(text) # <<>>
                   => /\ unprocessed_chunks' # <<>>
                      /\ Head(unprocessed_chunks') = text]_vars

\* ------------------------------------------------- the book audio pipeline
\* Time is counted in ticks of 1/32000 s, so that the duration
\* len(audio_bytes) / 32000 of upload_processing.py:104 is the number of bytes.

\* pages of a book in the model
MaxBookPages == 3

\* most bytes the synthesis adapter returns for one buffer in the model
MaxAudioLen == 2

\* upload_processing.py:87: the page count asked of get_pages_from_book
ALL_PAGES == 999999

\* a NULL number (models.py:74-75, nullable=True); durations and offsets are >= 0
NULL == -1

\* a NULL audio_blob / audio_duration / audio_start_offset (models.py:73-75)
NoAudio == [audio_blob |-> <<>>, audio_duration |-> NULL, audio_start_offset |-> NULL]

\* Page.chapter (models.py:68); "None" is NULL, what create_page stores when
\* upload_processing.py:233 passes no chapter
Chapters == {"None", "ch1"}

\* paragraph lists of pages: no text (the segmenter returns [""]), one
\* buffer, and (with MAX_CHARS = 4) two buffers
SamplePages == { <<>>, << <<"a">> >>, << <<"a", " ", "b", ".", " ", "b">> >> }

\* the rows of a book
Books ==
    UNION {[1..n -> [chapter : Chapters, paragraphed_text : SamplePages]]
           : n \in 0..MaxBookPages}

\* Book.total_pages: len(reader.pages), one Page row per page, numbered from 0
\* (upload_processing.py:192, 229)
TotalPages(rows) == Len(rows)

RECURSIVE Ascending(_)
\* a set of numbers as an ascending sequence (ORDER BY page_number)
Ascending(S) ==
    IF S = {} THEN <<>>
    ELSE LET least == CHOOSE x \in S : \A y \in S : x <= y
         IN  <<least>> \o Ascending(S \ {least})

\* database.py:120-122: min(num_pages, book.total_pages - start_page + 1)
PagesToFetch(total, start_page, num_pages) ==
    LET pages_remaining == total - start_page + 1
    IN  IF num_pages <= pages_remaining THEN num_pages ELSE pages_remaining

\* get_pages_from_book(book_id, start_page, num_pages), database.py:109-139:
\* the page numbers of the rows returned, in order
get_pages_from_book(rows, start_page, num_pages) ==
    LET pages_to_fetch == PagesToFetch(TotalPages(rows), start_page, num_pages)
    IN  IF pages_to_fetch <= 0 THEN <<>>
        ELSE Ascending({n \in 0..(Len(rows) - 1) :
                          n >= start_page /\ n < start_page + pages_to_fetch})

\* what the adapter returns for a buffer: n bytes, each carrying the text
\* it was synthesized from
Synthesized(text, n) == [k \in 1..n |-> text]

\* upload_processing.py:104, in ticks
Duration(audio) == Len(audio)

\* x or 0.0 (database.py:279)
OrZero(x) == IF x = NULL THEN 0 ELSE x

\* save_page_audio(audio_bytes, page_id, duration, chapter_offset),
\* database.py:242-282: the Page rows' audio columns after the call.  A
\* chapter_offset of 0.0 is taken as "not provided" and replaced from the
\* nearest earlier page of the same chapter.
save_page_audio(audio, rows, stored, n, duration, offset) ==
    LET prev_pages == {m \in 0..(Len(rows) - 1) :
                         rows[m + 1].chapter = rows[n + 1].chapter /\ m < n}
        last_page  == CHOOSE m \in prev_pages : \A k \in prev_pages : k <= m
        start      == IF offset = 0 /\ prev_pages # {}
                      THEN OrZero(stored[last_page + 1].audio_start_offset)
                           + OrZero(stored[last_page + 1].audio_duration)
                      ELSE offset
    IN  [stored EXCEPT ![n + 1] = [audio_blob |-> audio,
                                   audio_duration |-> duration,
                                   audio_start_offset |-> start]]

\* the except branch stores the partial audio (as a finally clause would)
PersistPartialAudio(audio, rows, stored, n, offset) ==
    save_page_audio(audio, rows, stored, n, Duration(audio), offset)

\* upload_processing.py:118-120: the exception of a failed page skips
\* save_page_audio; nothing is written for the page
AfterFailure(audio, rows, stored, n, offset) == stored

\* a failed page aborts the run instead
FailureRaises == "raised"

\* upload_processing.py:118-120: the exception is caught and the loop goes on
FailureOutcome == "continue"

\* no call of the segmenter
SegIdle ==
    /\ page_text = <<>>
    /\ entry = "none"
    /\ paragraphed_text = <<>>
    /\ unprocessed_chunks = <<>>
    /\ current_buffer = <<>>
    /\ sized_buffers = <<>>
    /\ before_flush = <<>>
    /\ seg_pc = "idle"
    /\ iterations = 0

InitBook ==
    /\ FetchIdle
    /\ SegIdle
    /\ CacheIdle
    /\ ServeIdle
    /\ book_pages \in Books
    /\ page_audio = [n \in 1..Len(book_pages) |-> NoAudio]
    /\ pages = <<>>
    /\ page_index = 0
    /\ current_chapter = "None"
    /\ chapter_offset = 0
    /\ buffers = <<>>
    /\ audio_bytes = <<>>
    /\ failures = {}
    /\ book_pc = "start"

\* the for loop moves to the next page, or ends
NextPage ==
    /\ page_index' = page_index + 1
    /\ book_pc' = IF page_index + 1 <= Len(pages) THEN "page" ELSE "done"

\* the offset runs on over a chapter transition
OffsetCarriedOver(chapter, current, offset) == offset

\* upload_processing.py:93-97: the offset a page starts with, zero at a
\* chapter transition
OffsetAtPage(chapter, current, offset) ==
    IF chapter # current THEN 0 ELSE offset

\* upload_processing.py:80-89
StartBook ==
    /\ book_pc = "start"
    /\ pages' = get_pages_from_book(book_pages, 0, ALL_PAGES)
    /\ page_index' = 1
    /\ book_pc' = IF pages' # <<>> THEN "page" ELSE "done"
    /\ UNCHANGED <<book_pages, page_audio, current_chapter, chapter_offset,
                   buffers, audio_bytes, failures, segVars, cacheVars, serveVars, fetchVars>>

\* upload_processing.py:93-103 and reader.py:206-207: the chapter transition,
\* then synthesize_page_audio up to its loop
BeginPage ==
    /\ book_pc = "page"
    /\ LET page == book_pages[pages[page_index] + 1]
       IN  /\ current_chapter' = page.chapter
           /\ chapter_offset' = OffsetAtPage(page.chapter, current_chapter,
                                             chapter_offset)
           /\ buffers' = convert_page_to_buffered_text(page.paragraphed_text)
    /\ audio_bytes' = <<>>
    /\ book_pc' = "synth"
    /\ UNCHANGED <<book_pages, page_audio, pages, page_index, failures, segVars, cacheVars, serveVars, fetchVars>>

\* reader.py:208-209: one call of the adapter returns
SynthesizeBuffer ==
    /\ book_pc = "synth"
    /\ buffers # <<>>
    /\ \E n \in 1..MaxAudioLen :
         audio_bytes' = audio_bytes \o Synthesized(Head(buffers), n)
    /\ buffers' = Tail(buffers)
    /\ UNCHANGED <<book_pages, page_audio, pages, page_index, current_chapter,
                   chapter_offset, failures, book_pc, segVars, cacheVars, serveVars, fetchVars>>

\* reader.py:209 raises and upload_processing.py:118-120 catches it
SynthesisFails ==
    /\ book_pc = "synth"
    /\ buffers # <<>>
    /\ failures' = failures \cup {[page |-> pages[page_index],
                                   synthesized |-> Len(audio_bytes)]}
    /\ page_audio' = AfterFailure(audio_bytes, book_pages, page_audio,
                                  pages[page_index], chapter_offset)
    /\ buffers' = <<>>
    /\ audio_bytes' = <<>>
    /\ IF FailureOutcome = "continue"
       THEN NextPage
       ELSE book_pc' = FailureOutcome /\ UNCHANGED page_index
    /\ UNCHANGED <<book_pages, pages, current_chapter, chapter_offset, segVars, cacheVars, serveVars, fetchVars>>

\* reader.py:210 and upload_processing.py:104-116: the page's audio is
\* complete, saved, and the offset advances
SavePage ==
    /\ book_pc = "synth"
    /\ buffers = <<>>
    /\ page_audio' = save_page_audio(audio_bytes, book_pages, page_audio,
                                     pages[page_index], Duration(audio_bytes),
                                     chapter_offset)
    /\ chapter_offset' = chapter_offset + Duration(audio_bytes)
    /\ audio_bytes' = <<>>
    /\ NextPage
    /\ UNCHANGED <<book_pages, pages, current_chapter, buffers, failures, segVars, cacheVars, serveVars, fetchVars>>

NextBook == StartBook \/ BeginPage \/ SynthesizeBuffer \/ SynthesisFails \/ SavePage

SpecBook == InitBook /\ [][NextBook]_vars

\* ------------------------------------------------- claims on the pipeline

HasAudio(n) == page_audio[n + 1] # NoAudio

FailedPages == {f.page : f \in failures}

\* C6: partial-failure isolation.  A run never raises, and when it has
\* finished with the synthesis of exactly one page k failed, every other
\* page of the book has persisted audio, duration and offset, and page k has
\* none.
C6_FailureIsolation ==
    /\ book_pc # "raised"
    /\ (book_pc = "done" /\ Cardinality(FailedPages) = 1) =>
         \A n \in 0..(Len(book_pages) - 1) :
            IF n \in FailedPages
            THEN page_audio[n + 1] = NoAudio
            ELSE /\ page_audio[n + 1].audio_blob # <<>>
                 /\ page_audio[n + 1].audio_duration # NULL
                 /\ page_audio[n + 1].audio_start_offset # NULL

\* C6 witness: a finished run over a book of MaxBookPages pages in which one
\* page, neither the first nor the last, failed.
C6_Witness ==
    /\ book_pc = "done"
    /\ Len(book_pages) = MaxBookPages
    /\ \E k \in 1..(Len(book_pages) - 2) :
         /\ FailedPages = {k}
         /\ ~HasAudio(k)
         /\ \A n \in 0..(Len(book_pages) - 1) : n # k => HasAudio(n)

\* C7: partial audio is never persisted.  At every step, a page whose
\* synthesis failed on some buffer has no stored audio, whatever number of
\* its buffers had been synthesized before.
C7_NoPartialAudio ==
    \A f \in failures : page_audio[f.page + 1] = NoAudio

\* C7 witness: a page failed after an earlier buffer of it had been
\* synthesized, and the run went on to save a later page.
C7_Witness ==
    \E f \in failures :
        /\ f.synthesized > 0
        /\ ~HasAudio(f.page)
        /\ \E n \in 0..(Len(book_pages) - 1) : n > f.page /\ HasAudio(n)

\* the first page of the run of equal chapter labels that page k is in
RECURSIVE RunStart(_)
RunStart(k) ==
    IF k > 0 /\ book_pages[k].chapter = book_pages[k + 1].chapter
    THEN RunStart(k - 1) ELSE k

RECURSIVE SavedDurations(_, _)
\* the durations of the pages from..(to - 1) that were saved
SavedDurations(from, to) ==
    IF from >= to THEN 0
    ELSE (IF HasAudio(from) THEN page_audio[from + 1].audio_duration ELSE 0)
         + SavedDurations(from + 1, to)

\* C18: chapter offset accumulation.  While a page is synthesized and saved,
\* chapter_offset is the sum of the durations of the pages before it in its
\* run of equal chapter labels that this run saved: zero after a chapter
\* transition, and not advanced by a page that failed.
C18_ChapterOffset ==
    book_pc = "synth" =>
        chapter_offset = SavedDurations(RunStart(pages[page_index]),
                                        pages[page_index])

\* C18 witness: the third page of a book is being synthesized; the page
\* before it has the same chapter and was saved, the first page has another
\* chapter and was saved, and the offset is the duration of the second alone.
C18_Witness ==
    /\ book_pc = "synth"
    /\ page_index = 3
    /\ book_pages[3].chapter = book_pages[2].chapter
    /\ book_pages[2].chapter # book_pages[1].chapter
    /\ HasAudio(0)
    /\ HasAudio(1)
    /\ chapter_offset = page_audio[2].audio_duration
    /\ chapter_offset > 0

\* a page of the run failed and the offset passed for a later page of the
\* run is that of the saved ones
C18_FailedPageReached ==
    /\ book_pc = "synth"
    /\ page_index = 3
    /\ book_pages[3].chapter = book_pages[2].chapter
    /\ book_pages[2].chapter = book_pages[1].chapter
    /\ HasAudio(0)
    /\ 1 \in FailedPages
    /\ chapter_offset > 0

\* C23: the sentinel is nothing to synthesize.  The synthesis adapter is
\* never called with empty text: the buffer the loop of synthesize_page_audio
\* is about to pass is not empty, and no byte of audio comes from empty text.
C23_SentinelNotSynthesized ==
    /\ (book_pc = "synth" /\ buffers # <<>>) => Head(buffers) # <<>>
    /\ \A k \in DOMAIN audio_bytes : audio_bytes[k] # <<>>

\* C27: save_page_audio stores the timing it is given.  When a page is
\* saved, its audio_start_offset is the chapter_offset passed, 0 included.
C27_OffsetStoredAsGiven ==
    [][(book_pc = "synth" /\ buffers = <<>> /\ page_index' = page_index + 1)
          => page_audio'[pages[page_index] + 1].audio_start_offset
                = chapter_offset]_vars

\* ------------------------------------------- the pipeline by page counts
\*
\* The run of audio_entire_book over books too long to hold row by row: a
\* book is its page count, the list get_pages_from_book returns is the
\* range of page numbers its query selects.

\* page counts beyond ALL_PAGES
MaxExtraPages == 4

\* iterations of the loop taken one by one
MaxAttempts == 12

\* Book.total_pages of the books
BookSizes == 0..MaxBookPages \cup (ALL_PAGES - 2)..(ALL_PAGES + MaxExtraPages)

\* database.py:127-136 on a book whose rows are numbered 0..(total - 1): the
\* first page number selected and the number of rows
FetchedRange(total, start_page, num_pages) ==
    LET pages_to_fetch == PagesToFetch(total, start_page, num_pages)
        first == Max(start_page, 0)
        end   == IF start_page + pages_to_fetch <= total
                 THEN start_page + pages_to_fetch ELSE total
    IN  IF pages_to_fetch <= 0 \/ end <= first
        THEN [first |-> 0, count |-> 0]
        ELSE [first |-> first, count |-> end - first]

InitFetch ==
    /\ SegIdle
    /\ BookIdle
    /\ CacheIdle
    /\ ServeIdle
    /\ total_pages \in BookSizes
    /\ fetched = [first |-> 0, count |-> 0]
    /\ attempted = 0
    /\ fetch_pc = "start"

\* upload_processing.py:87
FetchAllPages ==
    /\ fetch_pc = "start"
    /\ fetched' = FetchedRange(total_pages, 0, ALL_PAGES)
    /\ fetch_pc' = IF fetched'.count = 0 THEN "done" ELSE "loop"
    /\ UNCHANGED <<total_pages, attempted, segVars, bookVars, cacheVars, serveVars>>

\* upload_processing.py:89-120: one iteration of the loop, on the next page
\* of the list, saved or failed
AttemptPage ==
    /\ fetch_pc = "loop"
    /\ attempted < MaxAttempts
    /\ attempted' = attempted + 1
    /\ fetch_pc' = IF attempted + 1 = fetched.count THEN "done" ELSE "loop"
    /\ UNCHANGED <<total_pages, fetched, segVars, bookVars, cacheVars, serveVars>>

\* upload_processing.py:89-120: the other iterations of the loop, to the
\* end of the list
AttemptRest ==
    /\ fetch_pc = "loop"
    /\ attempted = MaxAttempts
    /\ attempted' = fetched.count
    /\ fetch_pc' = "done"
    /\ UNCHANGED <<total_pages, fetched, segVars, bookVars, cacheVars, serveVars>>

NextFetch == FetchAllPages \/ AttemptPage \/ AttemptRest

SpecFetch == InitFetch /\ [][NextFetch]_vars

\* C19: exhaustive single pass.  The loop goes once over each page of the
\* list in its order, the list starts at page 0, and when the run has
\* ended the pages attempted are all the pages of the book, whatever its
\* page count.
C19_ExhaustivePass ==
    /\ attempted <= fetched.count
    /\ fetch_pc # "start" => fetched.first = 0
    /\ fetch_pc = "done" => attempted = total_pages

\* ---------------------------------------------------------- the narrator
\*
\* ConcreteNarrator (reader.py:33-100) plays a book whose pages the pipeline
\* has been over.  Timestamps are in the ticks of Duration.
\*
\* reader.py:46 and reader.py:76 call get_audio_chunk_for_timestamp with the
\* session as an extra first argument, which the signature of
\* database.py:219 does not take.  The lookup is modelled as the call of
\* book_id and timestamp that the function implements.
\*
\* No code of the repository writes AudioChunk rows.  The table is either
\* empty or holds the page-aligned rows of PageAlignedChunks.

\* pages of the book that is played
MaxCachePages == 5

\* calls made on one narrator
MaxCalls == 3

\* pages of the book that is played whose synthesis failed
MaxFailedPages == 1

\* self.buffer_window (reader.py:38-41)
buffer_window == [back |-> 1, forward |-> 2]

\* the sample rate scrub divides by (reader.py:95)
SCRUB_RATE == 44100

\* the byte rate the pipeline divides by (upload_processing.py:104): the
\* number of bytes of a second, and of ticks
BYTE_RATE == 32000

\* bytes of a page's audio: none (the page failed), short, long
CacheAudioLens == {0, 1, 2 * MaxAudioLen}

\* the audio of page n, d bytes long, each byte carrying the page's number
PageBlob(n, d) == [k \in 1..d |-> n]

RECURSIVE SumDurations(_, _)
\* the audio_duration of the pages 0..(n - 1) that have one
SumDurations(stored, n) ==
    IF n = 0 THEN 0
    ELSE SumDurations(stored, n - 1) + OrZero(stored[n].audio_duration)

\* the Page rows' audio columns after audio_entire_book over a book of one
\* chapter: page n has d[n] bytes of audio, or failed (d[n] = 0), and the
\* offset is the chapter_offset of upload_processing.py:116
StoredAudio(d) ==
    LET withDurations == [n \in DOMAIN d |->
                            IF d[n] = 0 THEN NoAudio
                            ELSE [audio_blob |-> PageBlob(n - 1, d[n]),
                                  audio_duration |-> Duration(PageBlob(n - 1, d[n])),
                                  audio_start_offset |-> NULL]]
    IN  [n \in DOMAIN d |->
            IF d[n] = 0 THEN NoAudio
            ELSE [withDurations[n] EXCEPT
                    !.audio_start_offset = SumDurations(withDurations, n - 1)]]

\* AudioChunk rows (models.py:122-134), one per page that has audio, on the
\* timeline of the book
PageAlignedChunks(stored) ==
    {[start_page |-> n, end_page |-> n,
      start_timestamp |-> SumDurations(stored, n),
      end_timestamp |-> SumDurations(stored, n) + stored[n + 1].audio_duration]
        : n \in {m \in 0..(Len(stored) - 1) : stored[m + 1] # NoAudio}}

\* get_audio_chunk_for_timestamp(book_id, timestamp), database.py:219-234:
\* the rows the query selects
get_audio_chunk_for_timestamp(chunks, timestamp) ==
    {c \in chunks : c.start_timestamp <= timestamp /\ c.end_timestamp > timestamp}

\* self.audio_buffer[key] = value on a dict: a new key goes last, an old key
\* keeps its place
DictSet(dict, key, value) ==
    IF \E i \in DOMAIN dict : dict[i].ts = key
    THEN [i \in DOMAIN dict |->
            IF dict[i].ts = key THEN [ts |-> key, audio |-> value] ELSE dict[i]]
    ELSE Append(dict, [ts |-> key, audio |-> value])

RECURSIVE BuildAudioBuffer(_, _, _, _, _, _)
\* the for loop of reader.py:61-69 over the pages of the window
BuildAudioBuffer(window, stored, dict, ts, timestamp, buffer_audio) ==
    IF window = <<>>
    THEN [audio_buffer |-> dict, buffer_audio |-> buffer_audio]
    ELSE LET page == stored[Head(window) + 1]
         IN  IF page.audio_blob # <<>>
             THEN BuildAudioBuffer(Tail(window), stored,
                                   DictSet(dict, ts, page.audio_blob),
                                   ts + page.audio_duration, timestamp,
                                   IF ts <= timestamp /\ timestamp < ts + page.audio_duration
                                   THEN page.audio_blob ELSE buffer_audio)
             ELSE BuildAudioBuffer(Tail(window), stored, dict, ts, timestamp,
                                   buffer_audio)

\* the position is updated before the chunk is looked at
PositionUpdatedFirst(position, timestamp) == timestamp

\* reader.py:48-52: the ValueError is raised before self.current_timestamp
\* is assigned, which keeps its value
PositionOnNotFound(position, timestamp) == position

\* load_audio_for_timestamp, reader.py:43-71, on a narrator whose fields are
\* dict and position, over the Page rows (rows, stored) and AudioChunk rows
\* (chunks) of its book: how the call ends, the narrator's fields after it,
\* and the persistence queries it made
LoadCall(rows, stored, chunks, dict, position, timestamp) ==
    LET found == get_audio_chunk_for_timestamp(chunks, timestamp)
        chunk == CHOOSE c \in found : TRUE
        start_page == Max(1, chunk.start_page - buffer_window.back)
        end_page == chunk.end_page + buffer_window.forward
        window == get_pages_from_book(rows, start_page,
                                      end_page - start_page + 1)
        built == BuildAudioBuffer(window, stored, dict, 0, timestamp, <<>>)
    IN  IF Cardinality(found) > 1
        THEN [outcome |-> "MultipleResultsFound", audio_buffer |-> dict,
              current_timestamp |-> position, returned |-> <<>>,
              queries |-> 1]
        ELSE IF found = {}
        THEN [outcome |-> "ValueError", audio_buffer |-> dict,
              current_timestamp |-> PositionOnNotFound(position, timestamp),
              returned |-> <<>>, queries |-> 1]
        ELSE [outcome |-> "returned", audio_buffer |-> built.audio_buffer,
              current_timestamp |-> timestamp, returned |-> built.buffer_audio,
              queries |-> 2]

\* the call on the narrator of SpecCache
load_audio_for_timestamp(timestamp) ==
    LoadCall(book_pages, page_audio, audio_chunks, audio_buffer,
             current_timestamp, timestamp)

\* the test of reader.py:95-96 on one item of the buffer; len(audio) /
\* SCRUB_RATE seconds against a timestamp of timestamp / BYTE_RATE seconds
InScrubInterval(item, timestamp) ==
    /\ item.ts <= timestamp
    /\ (timestamp - item.ts) * SCRUB_RATE < Len(item.audio) * BYTE_RATE

\* the items the loop of reader.py:94-97 would return on, by position
ScrubMatches(dict, timestamp) ==
    {i \in DOMAIN dict : InScrubInterval(dict[i], timestamp)}

\* the pages whose audio the buffer holds
CachedPages == {audio_buffer[i].audio[1] : i \in DOMAIN audio_buffer}

\* the page of the stored chunk that covers the timestamp, if there is one
RequestedPages(timestamp) ==
    {c.start_page : c \in get_audio_chunk_for_timestamp(audio_chunks, timestamp)}

\* the three pages asked for last, the latest last
Touch(order, asked) ==
    LET without == SelectSeq(order, LAMBDA p : p \notin asked)
        all     == without \o Ascending(asked)
    IN  IF Len(all) <= 3 THEN all ELSE SubSeq(all, Len(all) - 2, Len(all))

\* the length of the book's audio
TotalDuration == SumDurations(page_audio, Len(page_audio))

\* a book of MaxCachePages pages of one chapter that the pipeline has been
\* over, and a new narrator for it
InitCache ==
    /\ FetchIdle
    /\ SegIdle
    /\ ServeIdle
    /\ book_pages = [n \in 1..MaxCachePages |->
                       [chapter |-> "None", paragraphed_text |-> <<>>]]
    /\ \E d \in [1..MaxCachePages -> CacheAudioLens] :
         /\ Cardinality({n \in DOMAIN d : d[n] = 0}) <= MaxFailedPages
         /\ page_audio = StoredAudio(d)
    /\ pages = <<>>
    /\ page_index = 0
    /\ current_chapter = "None"
    /\ chapter_offset = 0
    /\ buffers = <<>>
    /\ audio_bytes = <<>>
    /\ failures = {}
    /\ book_pc = "idle"
    /\ audio_chunks \in {{}, PageAlignedChunks(page_audio)}
    /\ audio_buffer = <<>>
    /\ current_timestamp = 0
    /\ last_call = NoCall
    /\ recent = <<>>
    /\ calls = 0
    /\ before_call = [audio_buffer |-> <<>>, current_timestamp |-> 0]

\* a request calls load_audio_for_timestamp (main.py:275-304)
LoadAudio ==
    \E timestamp \in 0..TotalDuration :
        LET call == load_audio_for_timestamp(timestamp)
        IN  /\ calls < MaxCalls
            /\ calls' = calls + 1
            /\ audio_buffer' = call.audio_buffer
            /\ current_timestamp' = call.current_timestamp
            /\ last_call' = [op |-> "load", timestamp |-> timestamp,
                             cached |-> RequestedPages(timestamp) \cap CachedPages # {},
                             queries |-> call.queries,
                             outcome |-> call.outcome,
                             returned |-> call.returned]
            /\ recent' = Touch(recent, RequestedPages(timestamp))
            /\ before_call' = [audio_buffer |-> audio_buffer,
                               current_timestamp |-> current_timestamp]
            /\ UNCHANGED <<audio_chunks, segVars, bookVars, serveVars, fetchVars>>

\* scrub(timestamp), reader.py:91-100: the first item of the buffer that
\* passes the test, or else the load
Scrub ==
    \E timestamp \in 0..TotalDuration :
        LET matches == ScrubMatches(audio_buffer, timestamp)
            first   == CHOOSE i \in matches : \A j \in matches : i <= j
            call    == load_audio_for_timestamp(timestamp)
            cached  == RequestedPages(timestamp) \cap CachedPages # {}
        IN  /\ calls < MaxCalls
            /\ calls' = calls + 1
            /\ IF matches # {}
               THEN /\ last_call' = [op |-> "scrub", timestamp |-> timestamp,
                                     cached |-> cached, queries |-> 0,
                                     outcome |-> "returned",
                                     returned |-> audio_buffer[first].audio]
                    /\ UNCHANGED <<audio_buffer, current_timestamp>>
               ELSE /\ audio_buffer' = call.audio_buffer
                    /\ current_timestamp' = call.current_timestamp
                    /\ last_call' = [op |-> "scrub", timestamp |-> timestamp,
                                     cached |-> cached, queries |-> call.queries,
                                     outcome |-> call.outcome,
                                     returned |-> call.returned]
            /\ recent' = Touch(recent, RequestedPages(timestamp))
            /\ before_call' = [audio_buffer |-> audio_buffer,
                               current_timestamp |-> current_timestamp]
            /\ UNCHANGED <<audio_chunks, segVars, bookVars, serveVars, fetchVars>>

NextCache == LoadAudio \/ Scrub

SpecCache == InitCache /\ [][NextCache]_vars

\* ------------------------------------------------- claims on the narrator

PersistedDuration(item) == page_audio[item.audio[1] + 1].audio_duration

\* the timestamp lies in [start, start + persisted duration) of an item of
\* the buffer
InCachedInterval(dict, timestamp) ==
    \E i \in DOMAIN dict :
        /\ dict[i].ts <= timestamp
        /\ timestamp < dict[i].ts + PersistedDuration(dict[i])

CoveringAudio(timestamp) ==
    {page_audio[n + 1].audio_blob :
        n \in {m \in 0..(Len(page_audio) - 1) :
                 /\ page_audio[m + 1] # NoAudio
                 /\ SumDurations(page_audio, m) <= timestamp
                 /\ timestamp < SumDurations(page_audio, m)
                                + page_audio[m + 1].audio_duration}}

RanLoad ==
    \/ last_call.op = "load"
    \/ last_call.op = "scrub" /\ last_call.queries > 0

C29_SavedAudioPlayable ==
    \A n \in 0..(Len(page_audio) - 1) :
        (book_pc # "idle" /\ HasAudio(n)) =>
            \A timestamp \in page_audio[n + 1].audio_start_offset
                             ..(page_audio[n + 1].audio_start_offset
                                + page_audio[n + 1].audio_duration - 1) :
                /\ get_audio_chunk_for_timestamp(audio_chunks, timestamp) # {}
                /\ LoadCall(book_pages, page_audio, audio_chunks, <<>>, 0,
                            timestamp).outcome # "ValueError"

\* ------------------------------------------------ the narration endpoints
\*
\* get_audio (main.py:275-304) and interrupt_narration (main.py:306-323)
\* serve concurrent requests on one event loop: a handler runs until it
\* awaits a persistence call, and continues when the call returns.  A scrub
\* request is a caller of ConcreteNarrator.scrub (reader.py:91-100).

\* pages of the first book of the library
MaxServePages == 4

\* requests received
MaxRequests == 2

BookIds == {"b1", "b2"}

UserIds == {"u1", "u2"}

\* the users who uploaded a book: process_pdf_upload creates the
\* UserBookState row of the pair (upload_processing.py:217-222)
Uploaders == [b \in BookIds |-> IF b = "b1" THEN {"u1", "u2"} ELSE {"u1"}]

\* upload_processing.py:205-210
initial_cursor == [page |-> 0, paragraph |-> 0, sentence |-> 0, timestamp |-> 0]

\* Page.id of page n of a book (models.py:65): no two rows share one
PageId(b, n) == IF b = "b1" THEN n ELSE MaxServePages + n

\* the rows of a book whose pages have d[n] bytes of audio
LibraryBook(b, d) ==
    LET stored == [n \in DOMAIN d |->
                     [StoredAudio(d)[n] EXCEPT
                        !.audio_blob = PageBlob(PageId(b, n - 1), d[n])]]
    IN  [rows   |-> [n \in DOMAIN d |->
                       [chapter |-> "None", paragraphed_text |-> <<>>]],
         stored |-> stored,
         chunks |-> PageAlignedChunks(stored)]

\* the book a stored audio blob belongs to
BookOfAudio(audio) ==
    IF audio[1] < MaxServePages THEN "b1" ELSE "b2"

\* ConcreteNarrator(book_id), reader.py:34-41
NewNarrator(book_id) ==
    [book_id |-> book_id, audio_buffer |-> <<>>, current_timestamp |-> 0]

\* the singleton is pointed at the other book, its fields kept
RetargetNarrator(objects, ref, book_id) ==
    IF ref = 0
    THEN [narrators |-> Append(objects, NewNarrator(book_id)),
          narrator_ref |-> Len(objects) + 1]
    ELSE [narrators |-> [objects EXCEPT ![ref].book_id = book_id],
          narrator_ref |-> ref]

\* reader.py:225: a new object replaces the singleton
ReplaceNarrator(objects, ref, book_id) ==
    [narrators |-> Append(objects, NewNarrator(book_id)),
     narrator_ref |-> Len(objects) + 1]

\* get_narrator(book_id), reader.py:222-226: the objects and _narrator after
\* the call; the object returned is the one _narrator refers to
get_narrator(objects, ref, book_id) ==
    IF ref = 0 \/ objects[ref].book_id # book_id
    THEN ReplaceNarrator(objects, ref, book_id)
    ELSE [narrators |-> objects, narrator_ref |-> ref]

\* the length of a book's audio
BookDuration(b) == SumDurations(library[b].stored, Len(library[b].stored))

\* a library of two books with their audio and chunk rows, the
\* UserBookState rows as the uploads left them, no narrator, no request
InitServe ==
    /\ FetchIdle
    /\ SegIdle
    /\ BookIdle
    /\ CacheIdle
    /\ \E d \in [1..MaxServePages -> 1..MaxAudioLen] :
         library = [b \in BookIds |->
                      IF b = "b1" THEN LibraryBook(b, d)
                      ELSE LibraryBook(b, <<1, 1>>)]
    /\ narrators = <<>>
    /\ narrator_ref = 0
    /\ requests = <<>>
    /\ user_book_states =
         [pair \in {q \in UserIds \X BookIds : q[1] \in Uploaders[q[2]]}
            |-> initial_cursor]

\* the fields of the object _narrator refers to, as a request finds them
Fields(objects, ref) ==
    IF ref = 0 THEN [book_id |-> "None", audio_buffer |-> <<>>, current_timestamp |-> 0]
    ELSE objects[ref]

\* a request whose handler has called get_narrator and is at pc
NewRequest(kind, book_id, timestamp, user_id, got, pc) ==
    [kind |-> kind, book_id |-> book_id, timestamp |-> timestamp,
     user_id |-> user_id, pc |-> pc,
     narrator |-> got.narrator_ref,
     lookup_ts |-> got.narrators[got.narrator_ref].current_timestamp,
     chunk |-> {}, position |-> {}, outcome |-> "pending", returned |-> <<>>,
     ref_before |-> narrator_ref,
     prior |-> Fields(narrators, narrator_ref),
     got |-> got.narrators[got.narrator_ref]]

\* main.py:283-285 and reader.py:45-46: get_narrator, then
\* load_audio_for_timestamp up to its chunk lookup
GetAudio ==
    \E b \in BookIds : \E t \in 0..BookDuration(b) :
        LET got == get_narrator(narrators, narrator_ref, b)
        IN  /\ Len(requests) < MaxRequests
            /\ narrators' = got.narrators
            /\ narrator_ref' = got.narrator_ref
            /\ requests' = Append(requests,
                                  NewRequest("audio", b, t, "u1", got, "lookup"))
            /\ UNCHANGED <<library, user_book_states, segVars, bookVars, cacheVars, fetchVars>>

\* reader.py:91-100 on the object get_narrator returns: the scan of the
\* buffer, then load_audio_for_timestamp up to its chunk lookup
ScrubRequest ==
    \E b \in BookIds : \E t \in 0..BookDuration(b) :
        LET got     == get_narrator(narrators, narrator_ref, b)
            dict    == got.narrators[got.narrator_ref].audio_buffer
            matches == ScrubMatches(dict, t)
            first   == CHOOSE i \in matches : \A j \in matches : i <= j
            request == NewRequest("scrub", b, t, "u1", got, "lookup")
        IN  /\ Len(requests) < MaxRequests
            /\ narrators' = got.narrators
            /\ narrator_ref' = got.narrator_ref
            /\ requests' = Append(requests,
                              IF matches # {}
                              THEN [request EXCEPT !.pc = "done",
                                                   !.outcome = "returned",
                                                   !.returned = dict[first].audio]
                              ELSE request)
            /\ UNCHANGED <<library, user_book_states, segVars, bookVars, cacheVars, fetchVars>>

\* main.py:319-320 and reader.py:85-87, 75-76: get_narrator, then interrupt
\* and get_current_position up to the chunk lookup for self.current_timestamp
InterruptNarration ==
    \E b \in BookIds : \E t \in 0..BookDuration(b) : \E u \in UserIds :
        LET got == get_narrator(narrators, narrator_ref, b)
        IN  /\ Len(requests) < MaxRequests
            /\ narrators' = got.narrators
            /\ narrator_ref' = got.narrator_ref
            /\ requests' = Append(requests,
                                  NewRequest("interrupt", b, t, u, got, "position"))
            /\ UNCHANGED <<library, user_book_states, segVars, bookVars, cacheVars, fetchVars>>

\* reader.py:46-58: the chunk lookup of a load returns; with no chunk the
\* ValueError ends the request, else the position is set and the pages of
\* the window are asked for
ChunkLookup ==
    \E i \in DOMAIN requests :
        LET r     == requests[i]
            self  == narrators[r.narrator]
            found == get_audio_chunk_for_timestamp(library[self.book_id].chunks,
                                                   r.timestamp)
        IN  /\ r.pc = "lookup"
            /\ IF Cardinality(found) = 1
               THEN /\ narrators' = [narrators EXCEPT
                                       ![r.narrator].current_timestamp = r.timestamp]
                    /\ requests' = [requests EXCEPT ![i].pc = "pages",
                                                    ![i].chunk = found]
               ELSE /\ requests' = [requests EXCEPT
                          ![i].pc = "done",
                          ![i].outcome = IF found = {} THEN "ValueError"
                                         ELSE "MultipleResultsFound"]
                    /\ UNCHANGED narrators
            /\ UNCHANGED <<library, narrator_ref, user_book_states,
                           segVars, bookVars, cacheVars, fetchVars>>

\* reader.py:58-71: get_pages_from_book returns, the loop fills the buffer
\* and the load returns
PagesFetched ==
    \E i \in DOMAIN requests :
        LET r      == requests[i]
            self   == narrators[r.narrator]
            chunk  == CHOOSE c \in r.chunk : TRUE
            start_page == Max(1, chunk.start_page - buffer_window.back)
            end_page   == chunk.end_page + buffer_window.forward
            window == get_pages_from_book(library[self.book_id].rows, start_page,
                                          end_page - start_page + 1)
            built  == BuildAudioBuffer(window, library[self.book_id].stored,
                                       self.audio_buffer, 0, r.timestamp, <<>>)
        IN  /\ r.pc = "pages"
            /\ narrators' = [narrators EXCEPT
                               ![r.narrator].audio_buffer = built.audio_buffer]
            /\ requests' = [requests EXCEPT ![i].pc = "done",
                                            ![i].outcome = "returned",
                                            ![i].returned = built.buffer_audio]
            /\ UNCHANGED <<library, narrator_ref, user_book_states,
                           segVars, bookVars, cacheVars, fetchVars>>

\* reader.py:76-83, 87-89: the chunk lookup of get_current_position
\* returns; with a chunk the position is built from it and from
\* self.current_timestamp and update_reading_position is called
PositionLookup ==
    \E i \in DOMAIN requests :
        LET r     == requests[i]
            self  == narrators[r.narrator]
            found == get_audio_chunk_for_timestamp(library[self.book_id].chunks,
                                                   r.lookup_ts)
            chunk == CHOOSE c \in found : TRUE
        IN  /\ r.pc = "position"
            /\ requests' =
                 IF Cardinality(found) = 1
                 THEN [requests EXCEPT
                         ![i].pc = "update",
                         ![i].chunk = found,
                         ![i].position =
                            {[page |-> chunk.start_page,
                              timestamp |-> self.current_timestamp,
                              total_duration |-> chunk.end_timestamp]}]
                 ELSE [requests EXCEPT
                         ![i].pc = "done",
                         ![i].outcome = IF found = {} THEN "no-op"
                                        ELSE "MultipleResultsFound"]
            /\ UNCHANGED <<library, narrators, narrator_ref, user_book_states,
                           segVars, bookVars, cacheVars, fetchVars>>

\* the new fields are merged into the stored position
update_merges_position(states, user_id, book_id, position) ==
    IF <<user_id, book_id>> \in DOMAIN states
    THEN [states EXCEPT ![<<user_id, book_id>>] = position @@ @]
    ELSE states

\* update_reading_position(user_id, book_id, position), database.py:202-217:
\* the cursor_position of the rows after the call
update_reading_position(states, user_id, book_id, position) ==
    IF <<user_id, book_id>> \in DOMAIN states
    THEN [states EXCEPT ![<<user_id, book_id>>] = position]
    ELSE states

\* reader.py:89: update_reading_position returns and the interrupt ends
UpdatePosition ==
    \E i \in DOMAIN requests :
        LET r        == requests[i]
            self     == narrators[r.narrator]
            position == CHOOSE p \in r.position : TRUE
        IN  /\ r.pc = "update"
            /\ user_book_states' = update_reading_position(
                   user_book_states, r.user_id, self.book_id, position)
            /\ requests' = [requests EXCEPT
                   ![i].pc = "done",
                   ![i].outcome =
                      IF <<r.user_id, self.book_id>> \in DOMAIN user_book_states
                      THEN "updated" ELSE "no row"]
            /\ UNCHANGED <<library, narrators, narrator_ref,
                           segVars, bookVars, cacheVars, fetchVars>>

\* the fields of ReadingPosition (main.py:18-22), all required
ReadingPositionFields == {"page", "paragraph", "sentence", "timestamp"}

\* main.py:146
default_position == [page |-> 1, paragraph |-> 0, sentence |-> 0, timestamp |-> 0]

\* get_reading_position(book_id, current_user), main.py:136-147, over the
\* UserBookState rows: 404 without a row, the default for an empty
\* cursor_position, else ReadingPosition(**cursor_position), which takes the
\* model's fields, ignores others and fails when one is missing
get_reading_position(states, user_id, book_id) ==
    IF <<user_id, book_id>> \notin DOMAIN states
    THEN [outcome |-> "404", position |-> {}]
    ELSE LET cursor_position == states[<<user_id, book_id>>]
         IN  IF DOMAIN cursor_position = {}
             THEN [outcome |-> "returned", position |-> {default_position}]
             ELSE IF ReadingPositionFields \subseteq DOMAIN cursor_position
             THEN [outcome |-> "returned",
                   position |-> {[f \in ReadingPositionFields |-> cursor_position[f]]}]
             ELSE [outcome |-> "ValidationError", position |-> {}]

NextServe ==
    \/ GetAudio
    \/ ScrubRequest
    \/ InterruptNarration
    \/ ChunkLookup
    \/ PagesFetched
    \/ PositionLookup
    \/ UpdatePosition

SpecServe == InitServe /\ [][NextServe]_vars

\* ------------------------------------------------ claims on the endpoints

\* C14: a book switch resets the cache.  A get_narrator call for a book
\* other than the current narrator's returns a new object with an empty
\* audio buffer and current_timestamp 0; a call for the same book returns
\* the same object with its fields as they were; and no narrator's buffer
\* ever holds audio of a book other than its own.
C14_BookSwitchResets ==
    /\ \A i \in DOMAIN requests :
          LET r == requests[i]
          IN  IF r.ref_before = 0 \/ r.prior.book_id # r.book_id
              THEN /\ r.narrator # r.ref_before
                   /\ r.got = NewNarrator(r.book_id)
              ELSE /\ r.narrator = r.ref_before
                   /\ r.got = r.prior
    /\ \A k \in DOMAIN narrators :
          \A j \in DOMAIN narrators[k].audio_buffer :
             BookOfAudio(narrators[k].audio_buffer[j].audio) = narrators[k].book_id

\* C14 witness: a request for the other book arrived when the narrator had
\* audio in its buffer, and the object it replaced still holds that audio.
C14_Witness ==
    \E i \in DOMAIN requests :
        /\ requests[i].ref_before # 0
        /\ requests[i].prior.book_id # requests[i].book_id
        /\ requests[i].prior.audio_buffer # <<>>
        /\ requests[i].prior.current_timestamp # 0
        /\ narrators[requests[i].ref_before].audio_buffer # <<>>
        /\ narrator_ref = requests[i].narrator

\* a request for the narrator's own book found audio in its buffer
C14_SameBookReached ==
    \E i \in DOMAIN requests :
        /\ requests[i].ref_before # 0
        /\ requests[i].prior.book_id = requests[i].book_id
        /\ requests[i].got.audio_buffer # <<>>

\* the chunks of a request's book that cover the timestamp the request passed
ChunksAtRequest(r) ==
    get_audio_chunk_for_timestamp(library[r.book_id].chunks, r.timestamp)

CompletesUpdate(i) ==
    /\ requests[i].pc = "update"
    /\ requests'[i].pc = "done"

ServedAlone(self, r) ==
    LET book == library[self.book_id]
        call == LoadCall(book.rows, book.stored, book.chunks, self.audio_buffer,
                         self.current_timestamp, r.timestamp)
        loaded == [self EXCEPT !.audio_buffer = call.audio_buffer,
                               !.current_timestamp = call.current_timestamp]
    IN  CASE r.kind = "audio" -> loaded
          [] r.kind = "scrub" ->
                IF ScrubMatches(self.audio_buffer, r.timestamp) # {}
                THEN self ELSE loaded
          [] OTHER -> self

RECURSIVE SerialResults(_, _)
\* the narrator's fields after the requests of S served one after the
\* other, in every order
SerialResults(self, S) ==
    IF S = {} THEN {self}
    ELSE UNION {SerialResults(ServedAlone(self, requests[i]), S \ {i}) : i \in S}

\* a narrator's fields with the buffer as the mapping it is
AsMapping(self) ==
    [current_timestamp |-> self.current_timestamp,
     audio_buffer |-> {self.audio_buffer[j] : j \in DOMAIN self.audio_buffer}]

=============================================================================
